---- MODULE Spec2Model ----
(***************************************************************************)
(* The exoplanet visualisation engine (class ExoplanetScene): the render    *)
(* loop, the cinematic camera sequence (startup timer, zoom step callback,  *)
(* detection label timers, orbit timer), the orbital kinematics, the        *)
(* callbacks of the texture fetch, the resize listener and dispose().       *)
(*                                                                          *)
(* Units.  Time is in milliseconds (performance.now()).  Angles are in      *)
(* micro-radians, so that delta[ms] * speed[1/1000 rad/s] is an angle.      *)
(* Lengths are in hundredths of a scene unit.  Math.sin / Math.cos return   *)
(* values scaled by TrigScale.  Zoom progress t and the eased progress are  *)
(* scaled by TScale.                                                        *)
(***************************************************************************)
EXTENDS Integers, Sequences, FiniteSets, TLC

(***************************************************************************)
(* Bounds of the exploration.                                               *)
(***************************************************************************)
\* Long frames and the orbiting phase are explored up to this time in
\* milliseconds; the cinematic sequence itself is always run to its end.
MaxTime == 13000
\* dispose() is called at most this many times.
MaxDisposeCalls == 2
\* Source images have at most this many pixels on a side.
MaxImageSide == 3
\* The star field is generated for at most this many stars.
MaxStars == 3
\* Time between two consecutive frames: a regular frame, or one long frame
\* (a suspended tab) longer than the whole zoom.
FrameGaps == {200, 6000}
RegularGap == CHOOSE d \in FrameGaps : \A e \in FrameGaps : d <= e

(***************************************************************************)
(* Number representation.                                                   *)
(***************************************************************************)
Pi == 3141593
TwoPi == 2 * Pi
HalfPi == Pi \div 2
TrigScale == 10000
TScale == 10000
PosScale == 100
\* micro-radians per unit of the argument of the Taylor polynomials
TrigStep == 1000000 \div TrigScale

Abs(n) == IF n < 0 THEN -n ELSE n
Min(a, b) == IF a < b THEN a ELSE b

\* cos on [0, pi/2], argument in 1/TrigScale rad, result scaled by TrigScale
CosQ(x) ==
    LET x2 == (x * x) \div TrigScale
        h4 == TrigScale - (x2 \div 56)
        h3 == TrigScale - ((x2 * h4) \div TrigScale) \div 30
        h2 == TrigScale - ((x2 * h3) \div TrigScale) \div 12
    IN  TrigScale - ((x2 * h2) \div TrigScale) \div 2

\* sin on [0, pi/2], argument in 1/TrigScale rad, result scaled by TrigScale
SinQ(x) ==
    LET x2 == (x * x) \div TrigScale
        s3 == TrigScale - (x2 \div 42)
        s2 == TrigScale - ((x2 * s3) \div TrigScale) \div 20
        s1 == TrigScale - ((x2 * s2) \div TrigScale) \div 6
    IN  (x * s1) \div TrigScale

\* Math.cos: argument in micro-radians, result scaled by TrigScale
Cos(a) ==
    LET r == a % TwoPi
        m == IF r > Pi THEN TwoPi - r ELSE r
    IN  IF m <= HalfPi THEN CosQ(m \div TrigStep)
        ELSE -CosQ((Pi - m) \div TrigStep)

\* Math.sin: argument in micro-radians, result scaled by TrigScale
Sin(a) ==
    LET r == a % TwoPi
        m == IF r > Pi THEN r - Pi ELSE r
        s == IF m <= HalfPi THEN SinQ(m \div TrigStep)
             ELSE SinQ((Pi - m) \div TrigStep)
    IN  IF r > Pi THEN -s ELSE s

RECURSIVE SqrtSearch(_, _, _)
SqrtSearch(n, lo, hi) ==
    IF lo >= hi THEN lo
    ELSE LET mid == (lo + hi + 1) \div 2
         IN  IF mid * mid <= n THEN SqrtSearch(n, mid, hi)
             ELSE SqrtSearch(n, lo, mid - 1)

\* Math.sqrt, rounded down
Sqrt(n) == SqrtSearch(n, 0, 46340)

\* THREE.Vector3.length()
Length(v) == Sqrt(v.x * v.x + v.y * v.y + v.z * v.z)

RECURSIVE AtanSearch(_, _, _, _)
\* the largest k in lo..hi with tan(k * TrigStep) <= y / x, for x, y >= 0
AtanSearch(y, x, lo, hi) ==
    IF lo >= hi THEN lo
    ELSE LET mid == (lo + hi + 1) \div 2
         IN  IF SinQ(mid) * x <= CosQ(mid) * y
             THEN AtanSearch(y, x, mid, hi)
             ELSE AtanSearch(y, x, lo, mid - 1)

\* Math.atan2(y, x) in micro-radians, in (-Pi, Pi]
Atan2(y, x) ==
    IF x = 0 /\ y = 0 THEN 0
    ELSE LET a == AtanSearch(Abs(y), Abs(x), 0, HalfPi \div TrigStep) * TrigStep
         IN  IF x >= 0 THEN (IF y >= 0 THEN a ELSE -a)
             ELSE (IF y >= 0 THEN Pi - a ELSE a - Pi)

Vec(x, y, z) == [x |-> x, y |-> y, z |-> z]
Origin == Vec(0, 0, 0)

(***************************************************************************)
(* Program constants.                                                       *)
(***************************************************************************)
StartupDelay == 800
Duration == 5000
OrbitRadius == 35 * PosScale
OrbitHeight == 5 * PosScale
QuarterPi == Pi \div 4
InitialCameraPos == Vec(45 * PosScale, 12 * PosScale, 120 * PosScale)
LabelFadeInDelay == 120
LabelBounceDelay == 900
LabelFadeOutDelay == 3800
LabelRemoveDelay == 5200
OrbitStartDelay == 400
\* planetData: distance, speed and rotationSpeed in thousandths, inclination
\* in thousandths of a degree
PlanetData == <<
    [distance |-> 18000, speed |-> 600, rotationSpeed |-> 400, inclination |-> 2000],
    [distance |-> 28000, speed |-> 400, rotationSpeed |-> 300, inclination |-> 1000],
    [distance |-> 42000, speed |-> 250, rotationSpeed |-> 350, inclination |-> 3500],
    [distance |-> 58000, speed |-> 180, rotationSpeed |-> 280, inclination |-> 1800],
    [distance |-> 75000, speed |-> 120, rotationSpeed |-> 500, inclination |-> 800],
    [distance |-> 95000, speed |-> 80, rotationSpeed |-> 200, inclination |-> 4200] >>
NumPlanets == Len(PlanetData)
\* THREE.MathUtils.degToRad, thousandths of a degree to micro-radians
DegToRad(mdeg) == (mdeg * (Pi \div 1000)) \div 180
\* Samples of the six values Math.random() * Math.PI * 2 drawn at construction
PhaseSamples == {
    <<0, 1000000, 2000000, 3000000, 4000000, 6283000>> }
\* Further samples: every planet at the least and at the greatest value
KinematicsPhases ==
    PhaseSamples \cup { <<0, 0, 0, 0, 0, 0>>,
        <<6283185, 6283185, 6283185, 6283185, 6283185, 6283185>> }

NoTime == -1
NoAngle == -1 - Pi
DisposedResources ==
    {"planetGeometry", "planetMaterial", "starsGeometry", "starsMaterial",
     "renderer"}

\* The geometries and materials the constructor and createSolarSystem create,
\* and the renderer.
ConstructedResources ==
    {"planetGeometry", "planetMaterial", "starsGeometry", "starsMaterial",
     "renderer", "sunGeometry", "sunMaterial", "glowGeometry", "glowMaterial"}
    \cup UNION { { "orbitGeometry" \o ToString(i), "orbitMaterial" \o ToString(i),
                   "bodyGeometry" \o ToString(i), "bodyMaterial" \o ToString(i),
                   "atmoGeometry" \o ToString(i), "atmoMaterial" \o ToString(i) } :
                 i \in 1..NumPlanets }

\* planetMat as the constructor creates it: no map, no normal map
InterimMaterial ==
    [map |-> "none", normalMap |-> "none", roughness |-> 55, metalness |-> 3,
     emissive |-> "1a0633", emissiveIntensity |-> 28]

\* The images a completed fetch can hand to the load callback: a decoded
\* image, an image of width and height 0, an image that cannot be drawn, and
\* an image whose pixels cannot be read back.
ImageKinds == {"valid", "zeroSize", "undrawable", "unreadable"}

\* container.clientWidth and container.clientHeight: at construction, and the
\* sizes the container takes later (0 x 0 when it is detached)
InitialContainerSize == << 800, 600 >>
ContainerSizes == { << 800, 600 >>, << 400, 300 >>, << 0, 0 >>, << 400, 0 >>,
                    << 0, 300 >> }

RECURSIVE Gcd(_, _)
Gcd(a, b) == IF b = 0 THEN a ELSE Gcd(b, a % b)

\* The quotient w / h of two non-negative numbers as a fraction in lowest
\* terms; 1/0 is Infinity and 0/0 is NaN.
Divide(w, h) ==
    IF h = 0 THEN [num |-> IF w = 0 THEN 0 ELSE 1, den |-> 0]
    ELSE [num |-> w \div Gcd(w, h), den |-> h \div Gcd(w, h)]

VARIABLES
    now,            \* performance.now()
    clockOld,       \* THREE.Clock.oldTime
    frameDue,       \* the display has a frame to produce at the current time
    rafList,        \* callbacks registered with requestAnimationFrame
    frameQueue,     \* callbacks of the frame being produced, not yet run
    animationId,    \* this.animationId: "none" (null) or "set"
    timers,         \* pending setTimeout callbacks
    zooming,        \* this.zooming
    orbiting,       \* this.orbiting
    orbitAngle,     \* this.orbitAngle
    camPos,         \* this.camera.position
    camLookFrom,    \* camera position at the last camera.lookAt(origin)
    startPos,       \* startZoomToPlanet: startPos
    startTime,      \* startZoomToPlanet: startTime
    startAngle,     \* startZoomToPlanet: startAngle
    labels,         \* the label divs created by showDetectionLabel
    planets,        \* this.planets
    sunRot,         \* this.sun.rotation
    starsRot,       \* this.stars.rotation
    solarRot,       \* this.solarSystem.rotation
    planetRotY,     \* this.planet.rotation.y
    renderedPos,    \* camera position used by the last renderer.render
    disposeCalls,   \* number of dispose() calls so far
    listenerAttached, \* the window 'resize' listener is registered
    released,       \* resources on which dispose() has been called
    domAttached,    \* renderer.domElement is a child of the container
    frameLog,       \* steps performed by the callbacks of the current frame
    lastT,          \* t computed by the last zoomStep call
    zoomEntries,    \* number of startZoomToPlanet calls
    firedAfterDispose, \* a frame callback ran after dispose()
    textureLoad,    \* loader.load: "pending", "loaded" or "failed"
    planetMat,      \* planetMat, the material of the exoplanet
    uncaught,       \* an exception has propagated out of a handler
    containerSize,  \* container.clientWidth, container.clientHeight
    cameraAspect,   \* this.camera.aspect
    rendererSize,   \* the size last given to renderer.setSize
    resizeRuns,     \* consecutive runs of onWindowResize with this size, up to 2
    calcFn,         \* the function called last outside the frame loop
    calcArgs,       \* its arguments
    calcResult      \* what it returned

vars == << now, clockOld, frameDue, rafList, frameQueue, animationId, timers,
           zooming, orbiting, orbitAngle, camPos, camLookFrom, startPos,
           startTime, startAngle, labels, planets, sunRot, starsRot, solarRot,
           planetRotY, renderedPos, disposeCalls, listenerAttached, released,
           domAttached, frameLog, lastT, zoomEntries, firedAfterDispose,
           textureLoad, planetMat, uncaught, containerSize, cameraAspect,
           rendererSize, resizeRuns, calcFn, calcArgs, calcResult >>

cameraVars == << zooming, orbiting, orbitAngle, camPos, camLookFrom >>
zoomVars == << startPos, startTime, startAngle >>
bodyVars == << planets, sunRot, starsRot, solarRot, planetRotY >>
disposeVars == << disposeCalls, listenerAttached, released, domAttached >>
assetVars == << textureLoad, planetMat >>
viewVars == << containerSize, cameraAspect, rendererSize, resizeRuns >>
calcVars == << calcFn, calcArgs, calcResult >>
engineVars == << now, clockOld, frameDue, rafList, frameQueue, animationId,
                 timers, cameraVars, zoomVars, labels, bodyVars, renderedPos,
                 disposeVars, frameLog, lastT, zoomEntries, firedAfterDispose,
                 assetVars, uncaught, viewVars >>

Timer(name, due, div) == [name |-> name, due |-> due, div |-> div]

\* Variant: the cinematic sequence is started without the startup pause.
StartupTimerImmediate == Timer("startZoom", 0, 0)

\* constructor: setTimeout(() => this.startZoomToPlanet(), 800) at time 0
StartupTimer == Timer("startZoom", StartupDelay, 0)

\* createSolarSystem: the record pushed to this.planets, after the first
\* animate() call of the constructor (delta = 0) has applied the angle
NewPlanet(data, phase) ==
    [distance |-> data.distance, speed |-> data.speed,
     rotationSpeed |-> data.rotationSpeed, angle |-> phase,
     tiltX |-> DegToRad(data.inclination),
     tiltZ |-> DegToRad(data.inclination \div 2),
     orbitRotY |-> phase, meshRotX |-> 0, meshRotY |-> 0]

\* The state when the constructor returns, with the initial angles of the
\* planets drawn from the given samples: the first animate() call has run
\* with delta = 0 and the startup timer is pending.
Constructed(samples) ==
    /\ now = 0
    /\ clockOld = 0
    /\ frameDue = FALSE
    /\ rafList = << "animate" >>
    /\ frameQueue = << >>
    /\ animationId = "set"
    /\ timers = { StartupTimer }
    /\ zooming = FALSE
    /\ orbiting = FALSE
    /\ orbitAngle = 0
    /\ camPos = InitialCameraPos
    /\ camLookFrom = InitialCameraPos
    /\ startPos = Origin
    /\ startTime = NoTime
    /\ startAngle = NoAngle
    /\ labels = << >>
    /\ \E ph \in samples :
          planets = [i \in 1..NumPlanets |-> NewPlanet(PlanetData[i], ph[i])]
    /\ sunRot = [x |-> 0, y |-> 0]
    /\ starsRot = [x |-> 0, y |-> 0]
    /\ solarRot = [x |-> 0, y |-> 0]
    /\ planetRotY = 0
    /\ renderedPos = InitialCameraPos
    /\ disposeCalls = 0
    /\ listenerAttached = TRUE
    /\ released = {}
    /\ domAttached = TRUE
    /\ frameLog = << >>
    /\ lastT = NoTime
    /\ zoomEntries = 0
    /\ firedAfterDispose = FALSE
    /\ textureLoad = "pending"
    /\ planetMat = InterimMaterial
    /\ uncaught = FALSE
    /\ containerSize = InitialContainerSize
    /\ cameraAspect = Divide(InitialContainerSize[1], InitialContainerSize[2])
    /\ rendererSize = InitialContainerSize
    /\ resizeRuns = 0

\* No function has been called outside the frame loop.
NoCall ==
    /\ calcFn = "none"
    /\ calcArgs = << >>
    /\ calcResult = << >>

Init == Constructed(PhaseSamples) /\ NoCall

(***************************************************************************)
(* Scheduling: the host's timers and display-refresh frames.                *)
(***************************************************************************)
\* Timers run in the order of their due times, never before they are due.
TimerReady(tm) ==
    /\ tm \in timers
    /\ tm.due <= now
    /\ \A other \in timers : other.due >= tm.due

NoTimerDue == \A tm \in timers : tm.due > now

\* Between tasks: no frame is being produced.
BetweenTasks == frameQueue = << >>

\* Time passes until the next frame is due.  Everything that is due at the
\* current time has run before time advances further.
Tick(d) ==
    /\ BetweenTasks
    /\ NoTimerDue
    /\ ~frameDue \/ rafList = << >>
    /\ \/ now + d <= MaxTime
       \/ d = RegularGap /\ ~orbiting /\ now + d <= 2 * MaxTime
    /\ now' = now + d
    /\ frameDue' = TRUE
    /\ UNCHANGED << clockOld, rafList, frameQueue, animationId, timers,
                    cameraVars, zoomVars, labels, bodyVars, renderedPos,
                    assetVars, uncaught, viewVars, calcVars,
                    disposeVars, frameLog, lastT, zoomEntries,
                    firedAfterDispose >>

\* The display starts a frame: the callbacks registered so far are run in
\* registration order, callbacks registered meanwhile wait for the next frame.
BeginFrame ==
    /\ BetweenTasks
    /\ frameDue
    /\ rafList # << >>
    /\ frameQueue' = rafList
    /\ rafList' = << >>
    /\ frameDue' = FALSE
    /\ frameLog' = << >>
    /\ UNCHANGED << now, clockOld, animationId, timers, cameraVars, zoomVars,
                    labels, bodyVars, renderedPos,
                    assetVars, uncaught, viewVars, calcVars, disposeVars, lastT,
                    zoomEntries, firedAfterDispose >>

(***************************************************************************)
(* The zoom step (closure zoomStep of startZoomToPlanet).                   *)
(***************************************************************************)
\* Variant: the progress is not clamped.
ZoomTUnclamped(elapsed, duration) == (elapsed * TScale) \div duration

\* t = Math.min(1, elapsed / duration), scaled by TScale
ZoomT(elapsed, duration) == Min(TScale, (elapsed * TScale) \div duration)

\* Variant: the ease-out branch without the division by two.
EasedNoHalving(t) ==
    IF 2 * t < TScale
    THEN (2 * t * t) \div TScale
    ELSE TScale - ((2 * TScale - 2 * t) * (2 * TScale - 2 * t)) \div TScale

\* the easing of zoomStep, scaled by TScale
Eased(t) ==
    IF 2 * t < TScale
    THEN (2 * t * t) \div TScale
    ELSE TScale - (((2 * TScale - 2 * t) * (2 * TScale - 2 * t)) \div TScale) \div 2

\* zoomStep: currentAngle
CurrentAngle(sAngle, eased) ==
    sAngle + ((eased * (QuarterPi \div TrigStep)) \div TScale) * TrigStep

\* zoomStep: currentRadius
CurrentRadius(sPos, eased) ==
    Length(sPos) - ((Length(sPos) - OrbitRadius) * eased) \div TScale

\* the pose written by zoomStep for t < 1
InterpolatedPose(sPos, sAngle, eased) ==
    Vec((Cos(CurrentAngle(sAngle, eased)) * CurrentRadius(sPos, eased)) \div TrigScale,
        sPos.y + ((OrbitHeight - sPos.y) * eased) \div TScale,
        (Sin(CurrentAngle(sAngle, eased)) * CurrentRadius(sPos, eased)) \div TrigScale)

\* Variant: the last zoom step leaves the camera where the previous step put it.
EndPoseNoSnap(sAngle) == camPos

\* the pose written by zoomStep for t = 1
EndPose(sAngle) ==
    Vec((Cos(sAngle + QuarterPi) * OrbitRadius) \div TrigScale,
        OrbitHeight,
        (Sin(sAngle + QuarterPi) * OrbitRadius) \div TrigScale)

\* showDetectionLabel: the new div (opacity 0, scale 0.6) and its four timers
NewLabel == [inDoc |-> TRUE, opacity |-> 0, scale |-> 60]

\* Variant: the label is never removed, so its promise never resolves.
LabelTimersNoRemove(div) ==
    { Timer("labelFadeIn", now + LabelFadeInDelay, div),
      Timer("labelBounce", now + LabelBounceDelay, div),
      Timer("labelFadeOut", now + LabelFadeOutDelay, div) }

\* Variant: the orbit timer is set together with the label timers instead of
\* after the label's promise has resolved.
LabelTimersAndOrbit(div) ==
    { Timer("labelFadeIn", now + LabelFadeInDelay, div),
      Timer("labelBounce", now + LabelBounceDelay, div),
      Timer("labelFadeOut", now + LabelFadeOutDelay, div),
      Timer("labelRemove", now + LabelRemoveDelay, div),
      Timer("orbitStart", now + OrbitStartDelay, 0) }

\* Variant: the delays of the fade-out and of the removal are exchanged.
LabelTimersSwapped(div) ==
    { Timer("labelFadeIn", now + LabelFadeInDelay, div),
      Timer("labelBounce", now + LabelBounceDelay, div),
      Timer("labelFadeOut", now + LabelRemoveDelay, div),
      Timer("labelRemove", now + LabelFadeOutDelay, div) }

LabelTimers(div) ==
    { Timer("labelFadeIn", now + LabelFadeInDelay, div),
      Timer("labelBounce", now + LabelBounceDelay, div),
      Timer("labelFadeOut", now + LabelFadeOutDelay, div),
      Timer("labelRemove", now + LabelRemoveDelay, div) }

\* Variant: the last zoom step does not clear the zooming flag.
ZoomingAfterKept(t, wasZooming) == wasZooming

\* this.zooming after a zoomStep call that computed t
ZoomingAfter(t, wasZooming) == IF t < TScale THEN wasZooming ELSE FALSE

\* One call of zoomStep with the closure values sPos, sTime, sAngle; pending
\* are the timers and wasZooming the zooming flag when the call starts.
ZoomStep(sPos, sTime, sAngle, pending, wasZooming) ==
    LET t == ZoomT(now - sTime, Duration)
    IN  /\ lastT' = t
        /\ zooming' = ZoomingAfter(t, wasZooming)
        /\ IF t < TScale
           THEN /\ camPos' = InterpolatedPose(sPos, sAngle, Eased(t))
                /\ camLookFrom' = camPos'
                /\ rafList' = Append(rafList, "zoomStep")
                /\ labels' = labels
                /\ timers' = pending
           ELSE /\ camPos' = EndPose(sAngle)
                /\ camLookFrom' = camPos'
                /\ rafList' = rafList
                /\ labels' = Append(labels, NewLabel)
                /\ timers' = pending \cup LabelTimers(Len(labels) + 1)

\* The startup timer: startZoomToPlanet, including its first zoomStep call.
StartZoomToPlanet ==
    \E tm \in timers :
        /\ BetweenTasks
        /\ TimerReady(tm)
        /\ tm.name = "startZoom"
        /\ zoomEntries' = zoomEntries + 1
        /\ startPos' = camPos
        /\ startTime' = now
        /\ startAngle' = Atan2(camPos.z, camPos.x)
        /\ ZoomStep(startPos', startTime', startAngle', timers \ {tm}, TRUE)
        /\ UNCHANGED << now, clockOld, frameDue, frameQueue, animationId,
                        orbiting, orbitAngle, bodyVars, renderedPos,
                        assetVars, uncaught, viewVars, calcVars,
                        disposeVars, frameLog, firedAfterDispose >>

\* The frame callback zoomStep registered by the previous zoomStep call.
ZoomStepCallback ==
    /\ frameQueue # << >>
    /\ Head(frameQueue) = "zoomStep"
    /\ frameQueue' = Tail(frameQueue)
    /\ ZoomStep(startPos, startTime, startAngle, timers, zooming)
    /\ frameLog' = Append(frameLog, IF lastT' < TScale THEN "zoomPose"
                                    ELSE "zoomEndPose")
    /\ firedAfterDispose' = (firedAfterDispose \/ disposeCalls > 0)
    /\ UNCHANGED << now, clockOld, frameDue, animationId, orbiting,
                    orbitAngle, zoomVars, bodyVars, renderedPos,
                    assetVars, uncaught, viewVars, calcVars, disposeVars,
                    zoomEntries >>

(***************************************************************************)
(* The detection label (showDetectionLabel) and the orbit timer.            *)
(***************************************************************************)
SetStyle(div, opacity, scale) ==
    [labels EXCEPT ![div].opacity = opacity, ![div].scale = scale]

\* setTimeout(..., 120): opacity 1, scale 1.02
LabelFadeIn ==
    \E tm \in timers :
        /\ BetweenTasks
        /\ TimerReady(tm)
        /\ tm.name = "labelFadeIn"
        /\ labels' = SetStyle(tm.div, 100, 102)
        /\ timers' = timers \ {tm}
        /\ UNCHANGED << now, clockOld, frameDue, rafList, frameQueue,
                        animationId, cameraVars, zoomVars, bodyVars,
                        renderedPos,
                        assetVars, uncaught, viewVars, calcVars, disposeVars, frameLog, lastT,
                        zoomEntries, firedAfterDispose >>

\* setTimeout(..., 900): scale 0.98
LabelBounce ==
    \E tm \in timers :
        /\ BetweenTasks
        /\ TimerReady(tm)
        /\ tm.name = "labelBounce"
        /\ labels' = SetStyle(tm.div, labels[tm.div].opacity, 98)
        /\ timers' = timers \ {tm}
        /\ UNCHANGED << now, clockOld, frameDue, rafList, frameQueue,
                        animationId, cameraVars, zoomVars, bodyVars,
                        renderedPos,
                        assetVars, uncaught, viewVars, calcVars, disposeVars, frameLog, lastT,
                        zoomEntries, firedAfterDispose >>

\* setTimeout(..., 3800): opacity 0, scale 0.85
LabelFadeOut ==
    \E tm \in timers :
        /\ BetweenTasks
        /\ TimerReady(tm)
        /\ tm.name = "labelFadeOut"
        /\ labels' = SetStyle(tm.div, 0, 85)
        /\ timers' = timers \ {tm}
        /\ UNCHANGED << now, clockOld, frameDue, rafList, frameQueue,
                        animationId, cameraVars, zoomVars, bodyVars,
                        renderedPos,
                        assetVars, uncaught, viewVars, calcVars, disposeVars, frameLog, lastT,
                        zoomEntries, firedAfterDispose >>

\* Variant: the continuation restarts the zoom instead of starting the orbit.
AfterLabelRestart(t) == Timer("startZoom", t + OrbitStartDelay, 0)

\* zoomStep: the continuation of showDetectionLabel().then at time t
AfterLabel(t) == Timer("orbitStart", t + OrbitStartDelay, 0)

\* setTimeout(..., 5200): div.remove(); resolve(), whose continuation (the
\* .then callback of zoomStep) runs at the end of this task and sets the
\* orbit timer.
LabelRemove ==
    \E tm \in timers :
        /\ BetweenTasks
        /\ TimerReady(tm)
        /\ tm.name = "labelRemove"
        /\ labels' = [labels EXCEPT ![tm.div].inDoc = FALSE]
        /\ timers' = (timers \ {tm}) \cup { AfterLabel(now) }
        /\ UNCHANGED << now, clockOld, frameDue, rafList, frameQueue,
                        animationId, cameraVars, zoomVars, bodyVars,
                        renderedPos,
                        assetVars, uncaught, viewVars, calcVars, disposeVars, frameLog, lastT,
                        zoomEntries, firedAfterDispose >>

\* setTimeout(..., 400) of zoomStep: the camera starts orbiting.
OrbitStart ==
    \E tm \in timers :
        /\ BetweenTasks
        /\ TimerReady(tm)
        /\ tm.name = "orbitStart"
        /\ orbitAngle' = startAngle + QuarterPi
        /\ orbiting' = TRUE
        /\ timers' = timers \ {tm}
        /\ UNCHANGED << now, clockOld, frameDue, rafList, frameQueue,
                        animationId, zooming, camPos, camLookFrom, zoomVars,
                        labels, bodyVars, renderedPos,
                        assetVars, uncaught, viewVars, calcVars, disposeVars, frameLog,
                        lastT, zoomEntries, firedAfterDispose >>

(***************************************************************************)
(* The render loop (animate).                                               *)
(***************************************************************************)
\* delta [ms] * rate [1/1000 rad/s], in micro-radians
Turn(delta, rate) == delta * rate

\* Variant: the angle advances with the rate of the spin of the planet.
AdvancePlanetBySpin(p, delta) ==
    LET angle == p.angle + (Turn(delta, p.rotationSpeed) * 15) \div 100
    IN  [p EXCEPT !.angle = angle,
                  !.orbitRotY = angle,
                  !.meshRotY = p.meshRotY + Turn(delta, p.rotationSpeed),
                  !.meshRotX = p.meshRotX + Turn(delta, p.rotationSpeed) \div 10]

\* Variant: the angle is kept within one turn.
AdvancePlanetWrapped(p, delta) ==
    LET angle == (p.angle + (Turn(delta, p.speed) * 15) \div 100) % TwoPi
    IN  [p EXCEPT !.angle = angle,
                  !.orbitRotY = angle,
                  !.meshRotY = p.meshRotY + Turn(delta, p.rotationSpeed),
                  !.meshRotX = p.meshRotX + Turn(delta, p.rotationSpeed) \div 10]

\* animate: the body of this.planets.forEach for one planet
AdvancePlanet(p, delta) ==
    LET angle == p.angle + (Turn(delta, p.speed) * 15) \div 100
    IN  [p EXCEPT !.angle = angle,
                  !.orbitRotY = angle,
                  !.meshRotY = p.meshRotY + Turn(delta, p.rotationSpeed),
                  !.meshRotX = p.meshRotX + Turn(delta, p.rotationSpeed) \div 10]

\* Variant: every planet continues from the angle of the first planet.
ForEachPlanetShared(ps, i, delta) ==
    [ps EXCEPT ![i] = AdvancePlanet([ps[i] EXCEPT !.angle = ps[1].angle], delta)]

\* animate: one call of the callback of this.planets.forEach, for the planet
\* at index i
ForEachPlanet(ps, i, delta) ==
    [ps EXCEPT ![i] = AdvancePlanet(ps[i], delta)]

RECURSIVE AdvancePlanets(_, _, _)
\* the planets after the callback has run for the indices of order, in turn
AdvancePlanets(ps, order, delta) ==
    IF order = << >> THEN ps
    ELSE CHOOSE after \in
             { AdvancePlanets(visited, Tail(order), delta) :
                 visited \in { ForEachPlanet(ps, Head(order), delta) } } : TRUE

\* Array.prototype.forEach visits the indices in ascending order
ArrayOrder == [i \in 1..NumPlanets |-> i]

\* orders in which the planets can be visited once each: the array order
\* started at any index, the reverse order, and the array order with two
\* neighbours exchanged (the exchanges from which every order is composed)
BodyOrders ==
    { [k \in 1..NumPlanets |-> ((k + r - 1) % NumPlanets) + 1] : r \in 0..(NumPlanets - 1) }
    \cup { [k \in 1..NumPlanets |-> NumPlanets + 1 - k] }
    \cup { [k \in 1..NumPlanets |-> IF k = i THEN i + 1 ELSE IF k = i + 1 THEN i ELSE k] :
             i \in 1..(NumPlanets - 1) }

\* Variant: the horizontal position turns with the slow angle of the height.
OrbitPoseSlowTurn(angle) ==
    Vec((Cos((angle * 4) \div 10) * OrbitRadius) \div TrigScale,
        OrbitHeight + (Sin((angle * 4) \div 10) * 150) \div TrigScale,
        (Sin((angle * 4) \div 10) * OrbitRadius) \div TrigScale)

\* animate: the camera pose of the orbiting branch
OrbitPose(angle) ==
    Vec((Cos(angle) * OrbitRadius) \div TrigScale,
        OrbitHeight + (Sin((angle * 4) \div 10) * 150) \div TrigScale,
        (Sin(angle) * OrbitRadius) \div TrigScale)

\* Variant: the orbiting branch is also taken while the zoom is running.
OrbitBranchAlsoZooming(orb, zoom) == orb \/ zoom

\* animate: the condition of the branch that writes the camera position
OrbitBranch(orb, zoom) == orb

\* renderer.render(scene, camera) at the end of animate: the pose drawn,
\* given the camera position before and after the camera branch
RenderedPose(before, after) == after

\* The frame callback animate.
Animate ==
    LET delta == now - clockOld
    IN  /\ frameQueue # << >>
        /\ Head(frameQueue) = "animate"
        /\ frameQueue' = Tail(frameQueue)
        /\ rafList' = Append(rafList, "animate")
        /\ animationId' = "set"
        /\ clockOld' = now
        /\ starsRot' = [x |-> starsRot.x + Turn(delta, 3),
                        y |-> starsRot.y + Turn(delta, 10)]
        /\ sunRot' = [x |-> sunRot.x + Turn(delta, 50),
                      y |-> sunRot.y + Turn(delta, 400)]
        /\ planets' = AdvancePlanets(planets, ArrayOrder, delta)
        /\ solarRot' = [x |-> solarRot.x + Turn(delta, 8),
                        y |-> solarRot.y + Turn(delta, 40)]
        /\ planetRotY' = planetRotY + Turn(delta, 150)
        /\ IF OrbitBranch(orbiting, zooming)
           THEN /\ orbitAngle' = orbitAngle + Turn(delta, 250)
                /\ camPos' = OrbitPose(orbitAngle')
                /\ camLookFrom' = camPos'
                /\ frameLog' = frameLog \o << "kinematics", "orbitPose", "render" >>
           ELSE IF ~zooming
           THEN /\ camLookFrom' = camPos
                /\ frameLog' = frameLog \o << "kinematics", "idleAim", "render" >>
                /\ UNCHANGED << orbitAngle, camPos >>
           ELSE /\ frameLog' = frameLog \o << "kinematics", "render" >>
                /\ UNCHANGED << orbitAngle, camPos, camLookFrom >>
        /\ renderedPos' = RenderedPose(camPos, camPos')
        /\ firedAfterDispose' = (firedAfterDispose \/ disposeCalls > 0)
        /\ UNCHANGED << now, frameDue, timers, zooming, orbiting, zoomVars,
                        labels, disposeVars, lastT, zoomEntries, assetVars,
                        uncaught, viewVars, calcVars >>

(***************************************************************************)
(* dispose().                                                               *)
(***************************************************************************)
\* cancelAnimationFrame(id): the request the id names is dropped
CancelAnimationFrame(list, id) ==
    IF id = "none" THEN list
    ELSE SelectSeq(list, LAMBDA cb : cb # "animate")

\* Variant: a function other than the registered one is removed, so the
\* listener stays registered.
ListenerAfterRemoveOther(attached) == attached

\* window.removeEventListener('resize', this.onWindowResize): the function is
\* the one the constructor registered
ListenerAfterRemove(attached) == FALSE

\* Variant: the output element is removed without looking at its parent.
RemoveOutputUnguarded(attached) == ~attached

\* dispose: an exception of the removal of renderer.domElement; the removal
\* is guarded by parentElement
RemoveOutputRaises(attached) == FALSE

Dispose ==
    /\ BetweenTasks
    /\ disposeCalls < MaxDisposeCalls
    /\ disposeCalls' = disposeCalls + 1
    /\ rafList' = CancelAnimationFrame(rafList, animationId)
    /\ listenerAttached' = ListenerAfterRemove(listenerAttached)
    /\ released' = released \cup DisposedResources
    /\ uncaught' = (uncaught \/ RemoveOutputRaises(domAttached))
    /\ domAttached' = FALSE
    /\ UNCHANGED << now, clockOld, frameDue, frameQueue, animationId, timers,
                    cameraVars, zoomVars, labels, bodyVars, renderedPos,
                    assetVars, viewVars, calcVars, frameLog, lastT, zoomEntries,
                    firedAfterDispose >>

(***************************************************************************)
(* The texture of the exoplanet (callbacks of loader.load).                 *)
(***************************************************************************)
\* createProceduralTexture, given whether canvas.getContext('2d') returns a
\* context: the texture, or "raised" for the TypeError of the first use of a
\* null context
CreateProceduralTexture(ctx2d) == IF ctx2d THEN "procedural" ELSE "raised"

\* generateNormalMapCanvas: the try block fails when no context is returned,
\* when drawImage throws or when getImageData throws; an image without
\* width and height is derived at 1024 x 1024.  The catch block returns
\* what createProceduralTexture returns, or raises what it raises.
GenerateNormalMapCanvas(img, ctx2d, ctx2dCatch) ==
    IF ctx2d /\ img \in {"valid", "zeroSize"} THEN "derived"
    ELSE CreateProceduralTexture(ctx2dCatch)

\* loader.load, onLoad: the assignments after generateNormalMapCanvas
LoadedMaterial(mat, normal) ==
    [mat EXCEPT !.map = "loaded", !.normalMap = normal, !.roughness = 60,
                !.metalness = 1, !.emissive = "22083a",
                !.emissiveIntensity = 35]

\* Variant: the failure callback leaves the material as it is.
FailureMaterialRetained(mat, fallback) == mat

\* loader.load, onError: the assignments after createProceduralTexture
FailureMaterial(mat, fallback) ==
    [mat EXCEPT !.map = fallback, !.roughness = 70]

\* The fetch resolves: the onLoad callback of loader.load.
TextureLoaded ==
    \E img \in ImageKinds, ctx2d \in BOOLEAN, ctx2dCatch \in BOOLEAN :
        LET normal == GenerateNormalMapCanvas(img, ctx2d, ctx2dCatch)
        IN  /\ BetweenTasks
            /\ textureLoad = "pending"
            /\ textureLoad' = "loaded"
            /\ IF normal = "raised"
               THEN /\ uncaught' = TRUE
                    /\ planetMat' = planetMat
               ELSE /\ uncaught' = uncaught
                    /\ planetMat' = LoadedMaterial(planetMat, normal)
            /\ UNCHANGED << now, clockOld, frameDue, rafList, frameQueue,
                            animationId, timers, cameraVars, zoomVars, labels,
                            bodyVars, renderedPos, disposeVars, viewVars, calcVars,
                            frameLog, lastT, zoomEntries, firedAfterDispose >>

\* The fetch fails: the onError callback of loader.load.
TextureFailed ==
    \E ctx2d \in BOOLEAN :
        LET fallback == CreateProceduralTexture(ctx2d)
        IN  /\ BetweenTasks
            /\ textureLoad = "pending"
            /\ textureLoad' = "failed"
            /\ IF fallback = "raised"
               THEN /\ uncaught' = TRUE
                    /\ planetMat' = planetMat
               ELSE /\ uncaught' = uncaught
                    /\ planetMat' = FailureMaterial(planetMat, fallback)
            /\ UNCHANGED << now, clockOld, frameDue, rafList, frameQueue,
                            animationId, timers, cameraVars, zoomVars, labels,
                            bodyVars, renderedPos, disposeVars, viewVars, calcVars,
                            frameLog, lastT, zoomEntries, firedAfterDispose >>

(***************************************************************************)
(* Normal-map synthesis (the try block of generateNormalMapCanvas).         *)
(* An image is its width w, its height h and its pixels px in row order,    *)
(* each pixel << r, g, b, a >>.  The intensity is in tenths.                *)
(***************************************************************************)
\* the value stored in a Uint8ClampedArray
Clamp8(v) == IF v < 0 THEN 0 ELSE IF v > 255 THEN 255 ELSE v

\* data[i] + data[i + 1] + data[i + 2] of the pixel at column x, row y
ChannelSum(img, x, y) ==
    LET p == img.px[y * img.w + x + 1] IN p[1] + p[2] + p[3]

\* Variant: beyond the last column and the last row the neighbour is black.
NeighbourSumBlackEdge(img, x, y, dx, dy) ==
    IF x + dx < img.w /\ y + dy < img.h THEN ChannelSum(img, x + dx, y + dy)
    ELSE 0

\* the channel sum the derivative compares with: that of the pixel to the
\* right (dx = 1) or below (dy = 1), or that of the pixel itself (l * 255)
\* in the last column and the last row
NeighbourSum(img, x, y, dx, dy) ==
    IF x + dx < img.w /\ y + dy < img.h THEN ChannelSum(img, x + dx, y + dy)
    ELSE ChannelSum(img, x, y)

\* Math.floor(((lx * 2 + 1) * 0.5) * 255) for lx = (d / 3 / 255) * intensity,
\* d the difference of two channel sums: d * intensity / 3 + 127.5, which is
\* (2 * d * tenths + 7650) / 60, rounded down and stored as a byte
NormalChannel(d, intensity) == Clamp8((2 * d * intensity + 7650) \div 60)

\* the pixel nImg.data[i .. i + 3] written for column x, row y
NormalPixel(img, x, y, intensity) ==
    << NormalChannel(NeighbourSum(img, x, y, 1, 0) - ChannelSum(img, x, y),
                     intensity),
       NormalChannel(NeighbourSum(img, x, y, 0, 1) - ChannelSum(img, x, y),
                     intensity),
       255, 255 >>

\* the image of the canvas the texture is made of
DerivedNormalMap(img, intensity) ==
    [w |-> img.w, h |-> img.h,
     px |-> [k \in 1..(img.w * img.h) |->
               NormalPixel(img, (k - 1) % img.w, (k - 1) \div img.w,
                           intensity)]]

\* Source images: of one colour, and of two colours in alternation.
ColourLevels == {0, 128, 255}
Colours == { << r, g, b, 255 >> : r \in ColourLevels, g \in ColourLevels,
                                  b \in ColourLevels }
UniformImages ==
    { [w |-> w, h |-> h, px |-> [k \in 1..(w * h) |-> c]] :
        w \in 1..MaxImageSide, h \in 1..MaxImageSide, c \in Colours }
TwoColourImages ==
    { [w |-> w, h |-> h,
       px |-> [k \in 1..(w * h) |->
                 IF k % 2 = 1 THEN << v, v, v, 255 >> ELSE << 0, v, 255, 255 >>]] :
        w \in 2..MaxImageSide, h \in 1..MaxImageSide, v \in ColourLevels }
SourceImages == UniformImages \cup TwoColourImages
\* the default intensity 1.0 and the intensity 3.0 of the load callback
Intensities == {10, 30}

\* generateNormalMapCanvas(img, intensity) on a drawable, readable image; the
\* load callback, its only caller, runs once
SynthesizeNormalMap ==
    \E img \in SourceImages, intensity \in Intensities :
        /\ calcFn = "none"
        /\ calcFn' = "generateNormalMapCanvas"
        /\ calcArgs' = << img, intensity >>
        /\ calcResult' = DerivedNormalMap(img, intensity)
        /\ UNCHANGED engineVars

(***************************************************************************)
(* The star field (createStarfield).  A value of Math.random() is in        *)
(* thousandths, a star coordinate in tenths of a scene unit.                *)
(***************************************************************************)
RandomScale == 1000
StarScale == 10
StarFieldRadius == 800

\* Values Math.random() returns, and the streams of them: the k-th value of
\* a stream is taken from the samples at a start and a stride.
RandomSamples == << 999, 0, 500, 250, 750, 1, 333 >>
RandomStreams ==
    { [start |-> a, stride |-> d] :
        a \in 0..(Len(RandomSamples) - 1), d \in 1..(Len(RandomSamples) - 1) }
Random(stream, k) ==
    RandomSamples[((stream.start + k * stream.stride) % Len(RandomSamples)) + 1]

RECURSIVE CbrtSearch(_, _, _)
CbrtSearch(n, lo, hi) ==
    IF lo >= hi THEN lo
    ELSE LET mid == (lo + hi + 1) \div 2
         IN  IF mid * mid * mid <= n THEN CbrtSearch(n, mid, hi)
             ELSE CbrtSearch(n, lo, mid - 1)

\* Math.cbrt of a value in thousandths, in thousandths, rounded down
Cbrt(u) == CbrtSearch(u * RandomScale * RandomScale, 0, RandomScale)

\* Math.acos of a value in thousandths, in micro-radians
Acos(c) == Atan2(Sqrt(RandomScale * RandomScale - c * c), c)

\* r = 800 * Math.cbrt(Math.random())
StarRadius(u) == (StarFieldRadius * StarScale * Cbrt(u)) \div RandomScale
\* theta = Math.random() * Math.PI * 2
StarTheta(u) == (u * (TwoPi \div RandomScale))
\* phi = Math.acos(2 * Math.random() - 1)
StarPhi(u) == Acos(2 * u - RandomScale)

\* Variant: y is computed with the cosine of theta, like x.
StarPositionCosTwice(r, theta, phi) ==
    << (((r * Sin(phi)) \div TrigScale) * Cos(theta)) \div TrigScale,
       (((r * Sin(phi)) \div TrigScale) * Cos(theta)) \div TrigScale,
       (r * Cos(phi)) \div TrigScale >>

\* x, y, z of a star
StarPosition(r, theta, phi) ==
    << (((r * Sin(phi)) \div TrigScale) * Cos(theta)) \div TrigScale,
       (((r * Sin(phi)) \div TrigScale) * Sin(theta)) \div TrigScale,
       (r * Cos(phi)) \div TrigScale >>

\* colorOptions: white, blue, green, yellow, purple
Palette == << << 255, 255, 255 >>, << 136, 204, 255 >>, << 128, 255, 128 >>,
              << 255, 238, 136 >>, << 209, 138, 255 >> >>

\* colorOptions[Math.floor(Math.random() * colorOptions.length)]
StarColour(u) == Palette[((u * Len(Palette)) \div RandomScale) + 1]

RECURSIVE Starfield(_, _, _)
\* the positions and colors arrays after the stars i .. count have been
\* pushed; star i takes the values 4 (i - 1) .. 4 (i - 1) + 3 of the stream
Starfield(i, count, stream) ==
    IF i > count THEN [positions |-> << >>, colors |-> << >>]
    ELSE LET k == 4 * (i - 1)
             rest == Starfield(i + 1, count, stream)
         IN  [positions |->
                  StarPosition(StarRadius(Random(stream, k)),
                               StarTheta(Random(stream, k + 1)),
                               StarPhi(Random(stream, k + 2)))
                  \o rest.positions,
              colors |-> StarColour(Random(stream, k + 3)) \o rest.colors]

\* createStarfield(count), called once by the constructor
CreateStarfield ==
    \E count \in 0..MaxStars, stream \in RandomStreams :
        /\ calcFn = "none"
        /\ calcFn' = "createStarfield"
        /\ calcArgs' = << count, stream >>
        /\ calcResult' = Starfield(1, count, stream)
        /\ UNCHANGED engineVars

(***************************************************************************)
(* The camera path as a function of the azimuth (Orbiting) and of the       *)
(* elapsed time (ZoomingIn).                                                *)
(***************************************************************************)
\* values of this.orbitAngle, a tenth of a radian apart, over more than two
\* turns and on both sides of 0
Azimuths == { k * 100000 : k \in -32..127 }

\* values of performance.now() - startTime for which t < 1
ElapsedStep == 50
ElapsedSamples == { k * ElapsedStep : k \in 0..((Duration \div ElapsedStep) - 1) }

\* animate, orbiting branch: the pose written for an azimuth, and for the
\* azimuth one turn later
EvaluateOrbitPose ==
    \E a \in Azimuths :
        /\ calcFn = "none"
        /\ calcFn' = "orbitPose"
        /\ calcArgs' = << a >>
        /\ calcResult' = [pose |-> OrbitPose(a), poseNextTurn |-> OrbitPose(a + TwoPi)]
        /\ UNCHANGED engineVars

\* zoomStep, branch t < 1, from the position the constructor gives the
\* camera: the values for an elapsed time and for the next sampled one
EvaluateZoomPose ==
    \E elapsed \in ElapsedSamples :
        LET sPos == InitialCameraPos
            sAngle == Atan2(sPos.z, sPos.x)
            t == ZoomT(elapsed, Duration)
            tNext == ZoomT(elapsed + ElapsedStep, Duration)
        IN  /\ calcFn = "none"
            /\ calcFn' = "zoomPose"
            /\ calcArgs' = << elapsed >>
            /\ calcResult' = [t |-> t, eased |-> Eased(t),
                              angle |-> CurrentAngle(sAngle, Eased(t)),
                              radius |-> CurrentRadius(sPos, Eased(t)),
                              pose |-> InterpolatedPose(sPos, sAngle, Eased(t)),
                              tNext |-> tNext, easedNext |-> Eased(tNext),
                              radiusNext |-> CurrentRadius(sPos, Eased(tNext))]
            /\ UNCHANGED engineVars

(***************************************************************************)
(* The HTTP client (apiRequest).                                            *)
(***************************************************************************)
\* options.body: absent, a value JSON.stringify serialises, a value it
\* rejects with a TypeError (a cycle, a BigInt), a value whose toJSON throws
RequestBodies == {"absent", "plain", "cyclic", "throwingToJSON"}

\* JSON.stringify(body): the error it throws, "none" when it returns
StringifyError(body) ==
    IF body = "cyclic" THEN "TypeError"
    ELSE IF body = "throwingToJSON" THEN "Error"
    ELSE "none"

BackendCodes == {"VALIDATION_ERROR", "MODEL_NOT_FOUND"}
HttpStatuses == {200, 201, 400, 404, 500, 503}

\* what response.json() does: the value it resolves with, by shape, or the
\* error it rejects with (the body is not JSON; reading the body failed)
ResponseBodies ==
    { [shape |-> "data", data |-> "payload"], [shape |-> "empty"],
      [shape |-> "null"], [shape |-> "errorText"],
      [shape |-> "notJson"], [shape |-> "readFailed"] }
    \cup { [shape |-> "error", code |-> c] : c \in BackendCodes }

\* the outcomes of fetch: it rejects (no response), or it resolves with a
\* response of a status, whose body is read afterwards
FetchOutcomes ==
    { [received |-> FALSE] }
    \cup { [received |-> TRUE, status |-> st] : st \in HttpStatuses }

\* response.ok
ResponseOk(status) == status >= 200 /\ status <= 299

Thrown(type, code) == [kind |-> "throw", error |-> type, code |-> code]
Returned(data) == [kind |-> "return", data |-> data]

\* response.json()
ResponseJson(body) ==
    IF body.shape = "notJson" THEN Thrown("SyntaxError", "none")
    ELSE IF body.shape = "readFailed" THEN Thrown("TypeError", "none")
    ELSE Returned(body)

\* new ApiError(errorResponse.error.code, ...): the property reads fail with
\* a TypeError when the body is null or has no error member; the code of a
\* member that is a string is undefined
ErrorFromBody(body) ==
    IF body.shape = "error" THEN Thrown("ApiError", body.code)
    ELSE IF body.shape = "errorText" THEN Thrown("ApiError", "undefined")
    ELSE Thrown("TypeError", "none")

\* successResponse.data
DataOfBody(body) ==
    IF body.shape = "data" THEN Returned(body.data)
    ELSE IF body.shape = "null" THEN Thrown("TypeError", "none")
    ELSE Returned("undefined")

\* the try block up to the first await: the body is serialised and fetch is
\* called
TryUntilFetch(body) ==
    IF body # "absent" /\ StringifyError(body) # "none"
    THEN Thrown(StringifyError(body), "none")
    ELSE Returned("fetchCalled")

\* the try block from the first await to the second: a rejection of fetch
\* is thrown, a response has response.json() called
TryAfterFetch(outcome) ==
    IF ~outcome.received THEN Thrown("TypeError", "none")
    ELSE Returned("jsonCalled")

\* the try block after the second await
TryAfterJson(status, body) ==
    IF ResponseJson(body).kind = "throw" THEN ResponseJson(body)
    ELSE IF ~ResponseOk(status) THEN ErrorFromBody(body)
    ELSE DataOfBody(body)

\* the catch block
CatchBlock(thrown) ==
    IF thrown.error = "ApiError" THEN thrown
    ELSE IF thrown.error = "TypeError" THEN Thrown("ApiError", "NETWORK_ERROR")
    ELSE IF thrown.error = "SyntaxError" THEN Thrown("ApiError", "PARSE_ERROR")
    ELSE Thrown("ApiError", "UNKNOWN_ERROR")

\* the promise apiRequest returned is not settled
Pending == [kind |-> "pending"]

\* how the promise settles when the try block has ended with r
Settled(r) == IF r.kind = "throw" THEN CatchBlock(r) ELSE r

\* the state of a call: where it is, whether fetch has resolved with a
\* response and with which status (0: none), and the promise
Call(at, received, status, promise) ==
    [at |-> at, received |-> received, status |-> status, settled |-> promise]

\* apiRequest(endpoint, {method, body}), up to `await fetch(...)`: the call
\* returns its promise to the caller, settled already when the body cannot be
\* serialised
ApiRequest ==
    \E body \in RequestBodies :
        /\ BetweenTasks
        /\ calcFn = "none"
        /\ calcFn' = "apiRequest"
        /\ calcArgs' = << body >>
        /\ calcResult' =
              IF TryUntilFetch(body).kind = "throw"
              THEN Call("settled", FALSE, 0, Settled(TryUntilFetch(body)))
              ELSE Call("awaitFetch", FALSE, 0, Pending)
        /\ UNCHANGED engineVars

\* the promise of fetch settles and apiRequest continues, up to
\* `await response.json()`
FetchSettled ==
    \E outcome \in FetchOutcomes :
        /\ BetweenTasks
        /\ calcFn = "apiRequest"
        /\ calcResult.at = "awaitFetch"
        /\ calcArgs' = Append(calcArgs, outcome)
        /\ calcResult' =
              IF TryAfterFetch(outcome).kind = "throw"
              THEN Call("settled", FALSE, 0, Settled(TryAfterFetch(outcome)))
              ELSE Call("awaitJson", TRUE, outcome.status, Pending)
        /\ UNCHANGED << calcFn, engineVars >>

\* the promise of response.json() settles and apiRequest runs to its end
JsonSettled ==
    \E body \in ResponseBodies :
        /\ BetweenTasks
        /\ calcFn = "apiRequest"
        /\ calcResult.at = "awaitJson"
        /\ calcArgs' = Append(calcArgs, body)
        /\ calcResult' =
              Call("settled", TRUE, calcResult.status,
                   Settled(TryAfterJson(calcResult.status, body)))
        /\ UNCHANGED << calcFn, engineVars >>

(***************************************************************************)
(* The resize listener (onWindowResize).                                    *)
(***************************************************************************)
\* Variant: the aspect ratio is height / width.
AspectInverted(size) == Divide(size[2], size[1])

\* onWindowResize: container.clientWidth / container.clientHeight
Aspect(size) == Divide(size[1], size[2])

\* The window is resized while the container has the given size: the event
\* is delivered to onWindowResize while the listener is registered.
WindowResize(size) ==
    /\ BetweenTasks
    /\ containerSize' = size
    /\ IF listenerAttached
       THEN /\ cameraAspect' = Aspect(size)
            /\ rendererSize' = size
            /\ resizeRuns' = IF resizeRuns >= 1 /\ rendererSize = size
                              THEN 2 ELSE 1
       ELSE UNCHANGED << cameraAspect, rendererSize, resizeRuns >>
    /\ UNCHANGED << now, clockOld, frameDue, rafList, frameQueue, animationId,
                    timers, cameraVars, zoomVars, labels, bodyVars,
                    renderedPos, disposeVars, assetVars, uncaught, frameLog,
                    lastT, zoomEntries, firedAfterDispose, calcVars >>

(***************************************************************************)
(* The specification.                                                       *)
(***************************************************************************)
Next ==
    \/ \E d \in FrameGaps : Tick(d)
    \/ BeginFrame
    \/ Animate
    \/ ZoomStepCallback
    \/ StartZoomToPlanet
    \/ LabelFadeIn
    \/ LabelBounce
    \/ LabelFadeOut
    \/ LabelRemove
    \/ OrbitStart
    \/ Dispose

Spec == Init /\ [][Next]_vars

\* The engine while dispose() is not called, with frames and timers that keep
\* firing.
NextLive ==
    \/ \E d \in FrameGaps : Tick(d)
    \/ BeginFrame
    \/ Animate
    \/ ZoomStepCallback
    \/ StartZoomToPlanet
    \/ LabelFadeIn
    \/ LabelBounce
    \/ LabelFadeOut
    \/ LabelRemove
    \/ OrbitStart

LiveSpec ==
    /\ Init
    /\ [][NextLive]_vars
    /\ WF_vars(\E d \in FrameGaps : Tick(d))
    /\ WF_vars(BeginFrame)
    /\ WF_vars(Animate \/ ZoomStepCallback)
    /\ WF_vars(StartZoomToPlanet \/ LabelFadeIn \/ LabelBounce \/ LabelFadeOut
                 \/ LabelRemove \/ OrbitStart)

\* The engine while dispose() is not called, for each sample of the initial
\* angles of the planets.
KinematicsInit == Constructed(KinematicsPhases) /\ NoCall

KinematicsNext ==
    \/ \E d \in FrameGaps : Tick(d)
    \/ BeginFrame
    \/ Animate
    \/ ZoomStepCallback
    \/ StartZoomToPlanet
    \/ LabelFadeIn
    \/ LabelBounce
    \/ LabelFadeOut
    \/ LabelRemove
    \/ OrbitStart

KinematicsSpec == KinematicsInit /\ [][KinematicsNext]_vars

\* Normal-map synthesis for each source image and intensity.
NormalMapInit == Constructed(PhaseSamples) /\ NoCall
NormalMapNext == SynthesizeNormalMap
NormalMapSpec == NormalMapInit /\ [][NormalMapNext]_vars

\* The star field for each count and each stream of random values.
StarfieldInit == Constructed(PhaseSamples) /\ NoCall
StarfieldNext == CreateStarfield
StarfieldSpec == StarfieldInit /\ [][StarfieldNext]_vars

\* The camera path for each azimuth and each elapsed time.
CameraPathInit == Constructed(PhaseSamples) /\ NoCall
CameraPathNext == EvaluateOrbitPose \/ EvaluateZoomPose
CameraPathSpec == CameraPathInit /\ [][CameraPathNext]_vars

\* The HTTP client for each request body, each outcome of fetch and each
\* body of the response; between the steps of a call other callbacks of the
\* page run, here the resize listener.
ApiInit == Constructed(PhaseSamples) /\ NoCall
ApiNext ==
    \/ ApiRequest
    \/ FetchSettled
    \/ JsonSettled
    \/ \E size \in ContainerSizes : WindowResize(size)
ApiSpec == ApiInit /\ [][ApiNext]_vars

\* A display that produces a frame every fourth regular interval.
SlowGap == 4 * RegularGap

\* The engine with its texture fetch, the window's resize events and
\* dispose(), on a slow display.
LifecycleNext ==
    \/ Tick(SlowGap)
    \/ BeginFrame
    \/ Animate
    \/ ZoomStepCallback
    \/ StartZoomToPlanet
    \/ LabelFadeIn
    \/ LabelBounce
    \/ LabelFadeOut
    \/ LabelRemove
    \/ OrbitStart
    \/ Dispose
    \/ TextureLoaded
    \/ TextureFailed
    \/ \E size \in ContainerSizes : WindowResize(size)

LifecycleSpec == Init /\ [][LifecycleNext]_vars

(***************************************************************************)
(* Properties.                                                              *)
(***************************************************************************)
\* The camera mode as the flags encode it.
Mode ==
    IF orbiting THEN "Orbiting" ELSE IF zooming THEN "ZoomingIn" ELSE "Idle"

\* The end pose of the zoom, computed from the start angle alone.
AnalyticEndPose ==
    Vec((Cos(startAngle + QuarterPi) * OrbitRadius) \div TrigScale,
        OrbitHeight,
        (Sin(startAngle + QuarterPi) * OrbitRadius) \div TrigScale)

\* A zoomStep call happens in this step.
ZoomStepRan ==
    \/ zoomEntries' # zoomEntries
    \/ /\ Len(frameLog') = Len(frameLog) + 1
       /\ frameLog'[Len(frameLog')] \in {"zoomPose", "zoomEndPose"}

\* C1 as stated: the mode only moves forward along Idle -> ZoomingIn ->
\* Orbiting; once Idle is left it is never entered again, and Orbiting is
\* never left.
C1_ModeNeverBackToIdle ==
    [][ /\ (Mode # "Idle" => Mode' # "Idle")
        /\ (Mode = "Orbiting" => Mode' = "Orbiting") ]_vars

\* C1 (amended): the flags only move along neither -> zooming -> neither
\* (while the label is shown) -> orbiting.  The zooming flag is set at most
\* once, it is cleared before the orbiting flag is set, and the orbiting flag
\* is never cleared.
C1_FlagsMoveForward ==
    [][ /\ (orbiting => orbiting' /\ ~zooming')
        /\ (~zooming /\ zooming' => zoomEntries = 0 /\ ~orbiting)
        /\ (zooming /\ ~zooming' => ~orbiting')
        /\ (~orbiting /\ orbiting' => ~zooming /\ lastT = TScale) ]_vars

\* The zoom has ended, the label is shown and neither flag is set.
C1_Witness ==
    /\ ~zooming /\ ~orbiting
    /\ lastT = TScale
    /\ Len(labels) = 1 /\ labels[1].inDoc

\* C2: the zooming flag and the orbiting flag are never both set.
C2_OneModeActive == ~(zooming /\ orbiting)

\* The engine orbits after one complete zoom.
C2_Witness == orbiting /\ ~zooming /\ zoomEntries = 1 /\ lastT = TScale

\* C3: the mode stays Idle while the startup delay has not elapsed; the
\* startup timer stays pending until ZoomingIn is entered; ZoomingIn is
\* entered by the startup timer, not before the delay has elapsed and at
\* most once.
C3_ZoomAfterStartupDelay ==
    /\ [](now < StartupDelay => Mode = "Idle" /\ zoomEntries = 0)
    /\ [](zoomEntries = 0 => Mode = "Idle" /\ StartupTimer \in timers)
    /\ [](zoomEntries <= 1)
    /\ [](zoomEntries = 1 => startTime >= StartupDelay)
    /\ [][ (~zooming /\ zooming') =>
             /\ zoomEntries = 0 /\ zoomEntries' = 1
             /\ now >= StartupDelay ]_vars
    /\ [][ zoomEntries' # zoomEntries => Mode' = "ZoomingIn" ]_vars

\* ZoomingIn has been entered, after the delay, and zoom steps have run.
C3_Witness ==
    /\ zooming /\ zoomEntries = 1
    /\ startTime >= StartupDelay
    /\ now > startTime

\* C4: the zoom step in which t reaches 1 sets the camera position to the
\* analytic end pose, clears the zooming flag and creates the label; no
\* zoom step runs after it, so the position stays at the end pose until the
\* camera orbits.
C4_SnapToEndPose ==
    /\ [][ (ZoomStepRan /\ lastT' = TScale) =>
             /\ camPos' = AnalyticEndPose'
             /\ zooming /\ ~zooming'
             /\ Len(labels') = Len(labels) + 1
             /\ labels'[Len(labels')].inDoc ]_vars
    /\ [][ lastT = TScale => ~ZoomStepRan ]_vars
    /\ []((lastT = TScale /\ ~orbiting) => camPos = AnalyticEndPose)

\* The last zoom step has just run.
C4_Witness ==
    /\ lastT = TScale /\ ~zooming
    /\ camPos = AnalyticEndPose
    /\ frameLog # << >> /\ frameLog[Len(frameLog)] = "zoomEndPose"
    /\ Len(labels) = 1 /\ labels[1].inDoc /\ labels[1].opacity = 0

\* C5: while frames and timers keep firing and dispose() is not called, Idle
\* leads to ZoomingIn, ZoomingIn leads to t = 1 and t = 1 leads to Orbiting.
C5_EventuallyOrbiting ==
    /\ (zoomEntries = 0) ~> zooming
    /\ zooming ~> (lastT = TScale)
    /\ (lastT = TScale) ~> orbiting

\* The camera orbits and has moved along the orbit.
C5_Witness == orbiting /\ orbitAngle > startAngle + QuarterPi

\* C6: t is always within [0, 1]; a zoom step that finds the elapsed time at
\* or beyond the duration computes t = 1 and writes the end pose.
C6_ProgressClamped ==
    /\ [](lastT # NoTime => lastT >= 0 /\ lastT <= TScale)
    /\ [][ (ZoomStepRan /\ now' - startTime' >= Duration) =>
             /\ lastT' = TScale
             /\ camPos' = AnalyticEndPose'
             /\ ~zooming' ]_vars
    /\ [][ (ZoomStepRan /\ now' - startTime' < Duration) =>
             /\ lastT' = ((now' - startTime') * TScale) \div Duration
             /\ zooming' ]_vars

\* The zoom ended in a step that found more than the duration elapsed.
C6_Witness ==
    /\ lastT = TScale
    /\ \E tm \in timers :
          /\ tm.name = "labelRemove"
          /\ tm.due - LabelRemoveDelay - startTime > Duration

\* C7: the orbiting flag is not set while a label has not been removed, and
\* the orbit timer is not pending before that.
C7_OrbitAfterLabel ==
    /\ orbiting =>
          /\ Len(labels) >= 1
          /\ \A i \in DOMAIN labels : ~labels[i].inDoc
    /\ \A tm \in timers : tm.name = "orbitStart" =>
          /\ Len(labels) >= 1
          /\ \A i \in DOMAIN labels : ~labels[i].inDoc

\* The camera orbits; the label has faded out and has been removed.
C7_Witness ==
    /\ orbiting
    /\ Len(labels) = 1
    /\ ~labels[1].inDoc /\ labels[1].opacity = 0 /\ labels[1].scale = 85

\* The phase of a label: 1 hidden, 2 faded in, 3 hold, 4 faded out, 5 removed.
LabelPhase(l) ==
    IF ~l.inDoc THEN 5
    ELSE IF l.opacity = 0 /\ l.scale = 60 THEN 1
    ELSE IF l.opacity = 100 /\ l.scale = 102 THEN 2
    ELSE IF l.opacity = 100 /\ l.scale = 98 THEN 3
    ELSE IF l.opacity = 0 /\ l.scale = 85 THEN 4
    ELSE 0

\* C8: a label is created at most once; it is in the document exactly while
\* its removal timer is pending, which is set 5200 ms after its creation; it
\* starts hidden and moves from each phase only to the next one.
C8_LabelPhases ==
    /\ [](Len(labels) <= 1)
    /\ [](\A i \in DOMAIN labels :
            /\ LabelPhase(labels[i]) \in 1..5
            /\ labels[i].inDoc <=>
                 \E tm \in timers : tm.name = "labelRemove" /\ tm.div = i)
    /\ [][ /\ Len(labels') >= Len(labels)
           /\ \A i \in DOMAIN labels :
                \/ LabelPhase(labels'[i]) = LabelPhase(labels[i])
                \/ LabelPhase(labels'[i]) = LabelPhase(labels[i]) + 1
           /\ \A i \in DOMAIN labels' \ DOMAIN labels :
                /\ LabelPhase(labels'[i]) = 1
                /\ Timer("labelRemove", now + LabelRemoveDelay, i) \in timers'
           /\ \A tm \in timers \ timers' :
                tm.name = "labelRemove" => now >= tm.due ]_vars

\* The label has gone through its phases and has been removed.
C8_Witness ==
    /\ Len(labels) = 1
    /\ LabelPhase(labels[1]) = 5
    /\ labels[1].opacity = 0 /\ labels[1].scale = 85

\* The render loop callback runs in this step.
AnimateRan ==
    /\ frameLog' # frameLog
    /\ frameLog' # << >>
    /\ frameLog'[Len(frameLog')] = "render"

PoseWrites == {"idleAim", "orbitPose", "zoomPose", "zoomEndPose"}

\* C9 as stated: in no frame is the scene rendered before the camera step of
\* that frame.
C9_PoseBeforeRender ==
    \A i, j \in DOMAIN frameLog :
        (i < j /\ frameLog[i] = "render") => frameLog[j] \notin PoseWrites

\* C10: no frame callback of the engine runs after dispose().
C10_NoCallbackAfterDispose == ~firedAfterDispose

\* What dispose() leaves behind: the render loop callback is not scheduled,
\* the resize listener is not registered, the resources dispose() names are
\* released and the output element is detached.
Disposed ==
    /\ \A i \in DOMAIN rafList : rafList[i] # "animate"
    /\ \A i \in DOMAIN frameQueue : frameQueue[i] # "animate"
    /\ ~listenerAttached
    /\ DisposedResources \subseteq released
    /\ ~domAttached

\* C11: a dispose() call after the first one raises no exception and changes
\* nothing but the number of calls: the engine stays as the first call left
\* it.
C11_DisposeIdempotent ==
    /\ [][ (disposeCalls >= 1 /\ disposeCalls' = disposeCalls + 1) =>
             /\ Disposed /\ Disposed'
             /\ uncaught' = uncaught
             /\ UNCHANGED << now, clockOld, frameDue, rafList, frameQueue,
                             animationId, timers, cameraVars, zoomVars,
                             labels, bodyVars, renderedPos, listenerAttached,
                             released, domAttached, frameLog, lastT,
                             zoomEntries, firedAfterDispose, assetVars,
                             viewVars >> ]_vars
    /\ [](disposeCalls >= 1 => Disposed)

\* dispose() has been called twice and no exception was raised.
C11_Witness == disposeCalls = 2 /\ Disposed /\ ~uncaught

\* C12: after dispose(), called in whatever state, the render loop callback
\* is not scheduled and never runs again, the resize listener is not
\* registered, so that a later resize event changes neither the camera aspect
\* nor the renderer size, the geometry and the material of the exoplanet and
\* of the star field and the renderer are released, and the output element is
\* not a child of the container.
C12_DisposeEffects ==
    /\ [](disposeCalls >= 1 =>
            /\ \A i \in DOMAIN rafList : rafList[i] # "animate"
            /\ \A i \in DOMAIN frameQueue : frameQueue[i] # "animate"
            /\ ~listenerAttached
            /\ {"planetGeometry", "planetMaterial", "starsGeometry",
                "starsMaterial", "renderer"} \subseteq released
            /\ ~domAttached)
    /\ [][ disposeCalls' >= 1 =>
             /\ clockOld' = clockOld /\ renderedPos' = renderedPos
             /\ bodyVars' = bodyVars ]_vars
    /\ [][ disposeCalls >= 1 =>
             /\ cameraAspect' = cameraAspect
             /\ rendererSize' = rendererSize ]_vars

\* dispose() was called while the camera orbited, and a resize event after it
\* left the aspect and the renderer size of the construction in place.
C12_Witness ==
    /\ disposeCalls >= 1 /\ orbiting
    /\ containerSize = << 400, 300 >>
    /\ rendererSize = << 800, 600 >>
    /\ cameraAspect = [num |-> 4, den |-> 3]

\* Every resource the engine owns: what it constructs, and the textures
\* assigned to the material of the exoplanet.
OwnedResources ==
    ConstructedResources
    \cup (IF planetMat.map = "none" THEN {} ELSE {"map"})
    \cup (IF planetMat.normalMap = "none" THEN {} ELSE {"normalMap"})

\* C13: after dispose() every resource the engine owns is released.
C13_AllResourcesReleased ==
    disposeCalls >= 1 => OwnedResources \subseteq released

\* C14: a texture fetch that completes after dispose() does not change the
\* material of the exoplanet.
C14_LateTextureNoOp ==
    [][ disposeCalls >= 1 => planetMat' = planetMat ]_vars

\* The fetch completes in this step.
FetchResolved == textureLoad = "pending" /\ textureLoad' = "loaded"
FetchFailed == textureLoad = "pending" /\ textureLoad' = "failed"

\* C15 as stated: the map and the normal map of the material change when and
\* only when the fetch resolves, and a failed fetch leaves the material as
\* the constructor made it.
C15_SwapOnlyOnSuccess ==
    [][ /\ FetchFailed => planetMat' = planetMat
        /\ planetMat' # planetMat => FetchResolved ]_vars

\* C15 (amended): the material is changed only by the completion of the one
\* fetch.  When the fetch resolves, the map becomes the loaded texture, the
\* normal map the derived one, or a procedural base texture when the
\* derivation fails, and the surface parameters those of onLoad.  When the
\* fetch fails, the map becomes a procedural base texture and the roughness
\* 0.7; the normal map and the other parameters stay.  A completion that
\* raises an exception changes nothing.  No further fetch is issued.
C15_TextureSwap ==
    /\ [](textureLoad = "pending" => planetMat = InterimMaterial)
    /\ [][ FetchResolved =>
             \/ uncaught' /\ planetMat' = planetMat
             \/ /\ uncaught' = uncaught
                /\ planetMat'.map = "loaded"
                /\ planetMat'.normalMap \in {"derived", "procedural"}
                /\ planetMat'.roughness = 60 /\ planetMat'.metalness = 1
                /\ planetMat'.emissiveIntensity = 35 ]_vars
    /\ [][ FetchFailed =>
             \/ uncaught' /\ planetMat' = planetMat
             \/ /\ uncaught' = uncaught
                /\ planetMat' = [planetMat EXCEPT !.map = "procedural",
                                                  !.roughness = 70] ]_vars
    /\ [][ planetMat' # planetMat => FetchResolved \/ FetchFailed ]_vars
    /\ [][ textureLoad # "pending" => textureLoad' = textureLoad ]_vars

\* The fetch has failed and the material carries the procedural texture.
C15_Witness ==
    /\ textureLoad = "failed"
    /\ planetMat.map = "procedural" /\ planetMat.normalMap = "none"
    /\ planetMat.roughness = 70 /\ planetMat.metalness = 3

\* C16: no exception propagates out of the normal-map synthesis and the
\* completion callbacks of the texture fetch.
C16_SynthesisNeverRaises == ~uncaught

\* C17: in every frame, with dt the time since the previous frame, the angle
\* of each planet grows by dt * speed * 0.15 and the rotation of its orbit
\* pivot about the vertical axis is the new angle; the new angle is a
\* function of the old angle, dt and the speed alone.
C17_AngleAdvance ==
    [][ AnimateRan =>
          \A i \in 1..NumPlanets :
              /\ planets'[i].angle =
                    planets[i].angle
                    + ((clockOld' - clockOld) * PlanetData[i].speed * 15)
                          \div 100
              /\ planets'[i].orbitRotY = planets'[i].angle
              /\ planets'[i].speed = PlanetData[i].speed ]_vars

\* A long frame has advanced the planets: the first one by
\* 6 s * 0.6 * 0.15 = 0.54 rad at once.
C17_Witness ==
    \E ph \in KinematicsPhases :
        /\ clockOld = 6000
        /\ planets[1].angle = ph[1] + 540000
        /\ planets[1].orbitRotY = planets[1].angle

\* C18 as stated: the angle of every planet stays within [0, 2 pi).
C18_AngleWithinOneTurn ==
    \A i \in 1..NumPlanets :
        planets[i].angle >= 0 /\ planets[i].angle < TwoPi

\* C18 (amended): the angle of a planet is never reduced: it starts within
\* [0, 2 pi) and is, at every moment, the initial angle plus 0.15 * speed
\* times the time of the last frame, so it never decreases and passes 2 pi.
C18_AngleNeverReduced ==
    /\ [](\E ph \in KinematicsPhases :
            \A i \in 1..NumPlanets :
                /\ ph[i] >= 0 /\ ph[i] < TwoPi
                /\ planets[i].angle =
                      ph[i] + (clockOld * PlanetData[i].speed * 15) \div 100)
    /\ [][ \A i \in 1..NumPlanets :
             planets'[i].angle >= planets[i].angle ]_vars

\* The angle of a planet has passed 2 pi.
C18_Witness ==
    \E i \in 1..NumPlanets :
        planets[i].angle >= TwoPi /\ planets[i].orbitRotY = planets[i].angle

\* onWindowResize runs in this step (a run that finds everything as it
\* leaves it is a stuttering step).
ResizeHandled ==
    /\ listenerAttached
    /\ resizeRuns' # resizeRuns \/ containerSize' # containerSize

\* C19: in whatever camera mode, onWindowResize sets the camera aspect to the
\* width of the container divided by its height (4/3 for 400 x 300) and
\* the renderer size to the size of the container, for a container of
\* positive width and height; a second run for the same size changes nothing.
C19_ResizeSetsAspect ==
    /\ [][ (ResizeHandled /\ containerSize'[1] > 0 /\ containerSize'[2] > 0) =>
             /\ cameraAspect'.den > 0
             /\ cameraAspect'.num * containerSize'[2]
                   = cameraAspect'.den * containerSize'[1]
             /\ rendererSize' = containerSize' ]_vars
    /\ [][ (ResizeHandled /\ resizeRuns' = 2) =>
             /\ cameraAspect' = cameraAspect
             /\ rendererSize' = rendererSize ]_vars
    /\ []((listenerAttached /\ containerSize = << 400, 300 >>) =>
             cameraAspect = [num |-> 4, den |-> 3])
    /\ [][ ~ResizeHandled =>
             /\ cameraAspect' = cameraAspect
             /\ rendererSize' = rendererSize ]_vars

\* Before the startup delay has elapsed the engine has handled two resize
\* events for a container of 400 x 300.
C19_Witness ==
    /\ now < StartupDelay /\ zoomEntries = 0
    /\ resizeRuns = 2
    /\ rendererSize = << 400, 300 >>
    /\ cameraAspect = [num |-> 4, den |-> 3]

\* C20: a resize event for a container of width 0 or height 0 changes neither
\* the camera aspect nor the renderer size.
C20_ZeroSizeResizeNoOp ==
    [][ (containerSize'[1] = 0 \/ containerSize'[2] = 0) =>
          /\ cameraAspect' = cameraAspect
          /\ rendererSize' = rendererSize ]_vars

\* Every pixel of the image has the colour of the first one.
IsUniform(img) == \A k \in DOMAIN img.px : img.px[k] = img.px[1]

\* C21: the normal map of an image has the width and the height of the image
\* and one pixel for every pixel of it, each with blue 255 and alpha 255; for
\* an image of one colour, whatever its size and the intensity, red and green
\* are 127 in every pixel.
C21_UniformImageNeutral ==
    calcFn = "generateNormalMapCanvas" =>
        LET img == calcArgs[1]
        IN  /\ calcResult.w = img.w /\ calcResult.h = img.h
            /\ DOMAIN calcResult.px = 1..(img.w * img.h)
            /\ \A k \in DOMAIN calcResult.px :
                  /\ calcResult.px[k][3] = 255 /\ calcResult.px[k][4] = 255
                  /\ IsUniform(img) =>
                        calcResult.px[k][1] = 127 /\ calcResult.px[k][2] = 127

\* The normal map of a 2 x 2 image of mid grey at intensity 3.0.
C21_Witness ==
    /\ calcFn = "generateNormalMapCanvas"
    /\ calcArgs[1] = [w |-> 2, h |-> 2,
                      px |-> [k \in 1..4 |-> << 128, 128, 128, 255 >>]]
    /\ calcArgs[2] = 30
    /\ calcResult = [w |-> 2, h |-> 2,
                     px |-> [k \in 1..4 |-> << 127, 127, 255, 255 >>]]

\* C22: createStarfield(n) returns 3 n coordinates and 3 n colour components;
\* every star is within 800 of the origin and has a colour of the palette.
C22_StarsWithinRadius ==
    calcFn = "createStarfield" =>
        LET n == calcArgs[1]
            pos == calcResult.positions
            col == calcResult.colors
        IN  /\ Len(pos) = 3 * n /\ Len(col) = 3 * n
            /\ \A i \in 1..n :
                  /\ pos[3 * i - 2] * pos[3 * i - 2] + pos[3 * i - 1] * pos[3 * i - 1]
                        + pos[3 * i] * pos[3 * i]
                     <= (StarFieldRadius * StarScale) * (StarFieldRadius * StarScale)
                  /\ \E c \in DOMAIN Palette :
                        << col[3 * i - 2], col[3 * i - 1], col[3 * i] >> = Palette[c]

\* Three stars, the first one near the greatest radius, in the plane z = 0.
C22_Witness ==
    /\ calcFn = "createStarfield"
    /\ calcArgs[1] = 3
    /\ Len(calcResult.positions) = 9
    /\ calcResult.positions[1] > 7900
    /\ Abs(calcResult.positions[3]) < 10

\* C23: the Orbiting pose of an azimuth lies on the circle of radius
\* orbitRadius around the vertical axis (to the rounding of a hundredth), its
\* height is within 1.5 of orbitHeight, and the azimuth one turn later gives
\* the same x and z.
C23_OrbitPoseOnCircle ==
    calcFn = "orbitPose" =>
        LET pose == calcResult.pose
            again == calcResult.poseNextTurn
        IN  /\ Abs(Sqrt(pose.x * pose.x + pose.z * pose.z) - OrbitRadius) <= 2
            /\ Abs(pose.y - OrbitHeight) <= 150
            /\ again.x = pose.x /\ again.z = pose.z

\* An azimuth in the second turn at which the height is more than 1 below
\* orbitHeight.
C23_Witness ==
    /\ calcFn = "orbitPose"
    /\ calcArgs[1] > TwoPi
    /\ calcResult.pose.y < OrbitHeight - 100
    /\ calcResult.pose.x < 0

\* C24: for t in [0, 1) the eased value is in [0, 1], is 0 at t = 0, does not
\* decrease and does not jump from one sampled t to the next (also across
\* t = 0.5); the radius does not increase and is between orbitRadius and the
\* starting distance; the pose written has that radius as horizontal
\* distance, the interpolated height and the azimuth startAngle + e pi/4.
C24_ZoomPathMonotone ==
    calcFn = "zoomPose" =>
        LET r == calcResult
            sPos == InitialCameraPos
            sAngle == Atan2(sPos.z, sPos.x)
        IN  /\ r.t < TScale
            /\ 0 <= r.eased /\ r.eased <= TScale
            /\ (r.t = 0 => r.eased = 0)
            /\ r.eased <= r.easedNext
            /\ r.easedNext - r.eased <= 2 * (r.tNext - r.t) + 1
            /\ r.radiusNext <= r.radius
            /\ OrbitRadius <= r.radius /\ r.radius <= Length(sPos)
            /\ Abs(Sqrt(r.pose.x * r.pose.x + r.pose.z * r.pose.z) - r.radius) <= 5
            /\ r.pose.y = sPos.y + ((OrbitHeight - sPos.y) * r.eased) \div TScale
            /\ OrbitHeight <= r.pose.y /\ r.pose.y <= sPos.y
            /\ Abs(Atan2(r.pose.z, r.pose.x) - (sAngle + (r.eased * (QuarterPi \div 100)) \div 100)) <= 1000

\* The step from t = 0.49 to t = 0.5, where the ease changes branch.
C24_Witness ==
    /\ calcFn = "zoomPose"
    /\ calcResult.t < TScale \div 2
    /\ calcResult.tNext = TScale \div 2
    /\ calcResult.easedNext = TScale \div 2
    /\ calcResult.radius < Length(InitialCameraPos)

\* C25: in every frame the planets end up the same for every order in which
\* they are visited; the update of one planet leaves every other planet as
\* it was, and no planet's distance, speed, rotation speed or inclination
\* changes.
C25_BodiesIndependent ==
    [][ AnimateRan =>
          /\ \A o \in BodyOrders :
                AdvancePlanets(planets, o, now - clockOld) = planets'
          /\ \A i, j \in 1..NumPlanets :
                i # j =>
                  /\ ForEachPlanet(planets, i, now - clockOld)[j] = planets[j]
                  /\ AdvancePlanets(planets, << i, j >>, now - clockOld)
                        = AdvancePlanets(planets, << j, i >>, now - clockOld)
          /\ \A i \in 1..NumPlanets :
                /\ planets'[i].distance = planets[i].distance
                /\ planets'[i].speed = planets[i].speed
                /\ planets'[i].rotationSpeed = planets[i].rotationSpeed
                /\ planets'[i].tiltX = planets[i].tiltX
                /\ planets'[i].tiltZ = planets[i].tiltZ ]_vars

\* Two frames have advanced every planet, each by its own amount, and the
\* inclination of the last one is the one set at creation.
C25_Witness ==
    /\ clockOld >= 6200
    /\ \A i \in 1..NumPlanets : planets[i].meshRotY > 0
    /\ planets[1].angle - planets[1].orbitRotY = 0
    /\ planets[NumPlanets].tiltX = DegToRad(PlanetData[NumPlanets].inclination)
    /\ planets[1].meshRotY # planets[2].meshRotY

\* C26 as stated: once dispose() has been called, no step changes the camera
\* position, the mode flags or the labels in the document; in particular,
\* after a dispose() before the startup delay the mode stays Idle.
C26_DisposeStopsSequence ==
    [][ disposeCalls >= 1 =>
          /\ camPos' = camPos
          /\ zooming' = zooming /\ orbiting' = orbiting
          /\ labels' = labels ]_vars

\* C27: the camera position changes only in a render-loop callback while
\* orbiting is set and zooming is not, or in a zoom step while zooming is set
\* (the first step sets it itself) and orbiting is not; the render loop
\* writes a pose only while orbiting; no frame has pose writes of both
\* callbacks; from the last zoom step to the start of Orbiting the position
\* is the end pose.
C27_SingleWriter ==
    /\ [][ /\ camPos' # camPos =>
                \/ AnimateRan /\ ~ZoomStepRan /\ orbiting /\ ~zooming
                \/ ZoomStepRan /\ ~AnimateRan /\ ~orbiting
                     /\ (zooming \/ zoomEntries' # zoomEntries)
           /\ (AnimateRan /\ ~orbiting) => camPos' = camPos
           /\ (ZoomStepRan /\ zoomEntries' = zoomEntries) => zooming ]_vars
    /\ [](\A i, j \in DOMAIN frameLog :
            ~(frameLog[i] = "orbitPose" /\ frameLog[j] \in {"zoomPose", "zoomEndPose"}))
    /\ []((lastT = TScale /\ ~orbiting) => camPos = AnalyticEndPose)

\* The camera orbits, away from the end pose of the zoom, and the zoom has
\* run to its last step.
C27_Witness ==
    /\ orbiting /\ ~zooming
    /\ lastT = TScale
    /\ camPos # AnalyticEndPose
    /\ frameLog = << "kinematics", "orbitPose", "render" >>

\* C28 as stated: the first zoom step, at eased progress 0, leaves the camera
\* where it was on entry (to within 0.05 in every coordinate).
C28_NoJumpEnteringZoom ==
    [][ zoomEntries' # zoomEntries =>
          /\ Abs(camPos'.x - camPos.x) <= 5
          /\ Abs(camPos'.y - camPos.y) <= 5
          /\ Abs(camPos'.z - camPos.z) <= 5 ]_vars

\* C29 as stated: the Orbiting pose at the azimuth set on entering Orbiting
\* is the end pose of the zoom, where the camera then is (to within 0.05 in
\* every coordinate).
C29_NoJumpEnteringOrbit ==
    [][ (~orbiting /\ orbiting') =>
          /\ orbitAngle' = startAngle + QuarterPi
          /\ Abs(OrbitPose(orbitAngle').x - camPos.x) <= 5
          /\ Abs(OrbitPose(orbitAngle').y - camPos.y) <= 5
          /\ Abs(OrbitPose(orbitAngle').z - camPos.z) <= 5 ]_vars

\* C30 as stated: apiRequest returns the data or throws an ApiError, and it
\* throws the code NETWORK_ERROR only when fetch obtained no response.
C30_NetworkErrorOnlyWithoutResponse ==
    (calcFn = "apiRequest" /\ calcResult.at = "settled") =>
        /\ calcResult.settled.kind = "throw" => calcResult.settled.error = "ApiError"
        /\ (calcResult.settled.kind = "throw" /\ calcResult.settled.code = "NETWORK_ERROR")
              => ~calcResult.received
====
